---- MODULE Spec2Model ----
(***************************************************************************)
(* A model of Data_Generator.py, the Spotify Web API data importer: the    *)
(* mood pipeline (search playlists, extract tracks, deduplicate, audio     *)
(* features, write song_mood_data.csv) followed by the user-top-tracks     *)
(* pipeline (re-authenticate, top tracks per time range, stack, audio      *)
(* features, deduplicate, genres, write user_top_tracks.csv).              *)
(*                                                                         *)
(* JSON values of the Web API are tagged records, so that Python's         *)
(* subscripting (TypeError on None, KeyError on a missing key, IndexError  *)
(* on a short list) can be evaluated as the interpreter evaluates it.      *)
(***************************************************************************)
EXTENDS Integers, Sequences, FiniteSets, TLC

VARIABLES
    pc,                  \* position of the script / of the harness
    sp,                  \* the spotipy client's authorization mode
    mood_lists,          \* mood -> playlist ids (line 54)
    track_df,            \* the mood pipeline's DataFrame
    user_top_tracks,     \* list of arrays, then the stacked array (227-234)
    user_top_tracks_df,  \* the user pipeline's DataFrame
    files,               \* path -> DataFrame written by to_csv
    error,               \* the exception that ended the run, or "none"
    calls,               \* lookups issued through the current client sp
    stages,              \* the statements of the script completed so far
    arg,                 \* harness: the arguments of the function under test
    ret                  \* harness: what the function returned or raised

vars == <<pc, sp, mood_lists, track_df, user_top_tracks, user_top_tracks_df,
          files, error, calls, stages, arg, ret>>

---------------------------------------------------------------------------
(* Bounds of the model.                                                    *)

MaxPage == 3        \* items of a page handed to the extraction harness
MaxRows == 3        \* rows of a table handed to the augmentation harnesses
NumTracks == 2      \* tracks of the catalog
NumVersions == 2    \* distinct feature objects the service may hold for a track
NumMoods == 1       \* mood keywords searched for
MaxPlaylists == 1   \* playlists a search returns
MaxItems == 2       \* items of a page fetched by the script
NumWindows == 2     \* time ranges of the user's top tracks

---------------------------------------------------------------------------
(* JSON / Python values.                                                   *)

None == [k |-> "null"]
Str(s) == [k |-> "str", v |-> s]
Num(s) == [k |-> "int", v |-> s]
Dict(d) == [k |-> "dict", d |-> d]
List(l) == [k |-> "list", l |-> l]

Ok(v) == [exc |-> "none", val |-> v]
Raise(e) == [exc |-> e]

\* obj[key] as Python evaluates it; the key "[0]" stands for the integer 0.
Subscript(obj, key) ==
    IF obj.k = "dict"
    THEN IF key \in DOMAIN obj.d THEN Ok(obj.d[key]) ELSE Raise("KeyError")
    ELSE IF obj.k = "list"
    THEN IF key # "[0]" THEN Raise("TypeError")
         ELSE IF Len(obj.l) >= 1 THEN Ok(obj.l[1]) ELSE Raise("IndexError")
    ELSE Raise("TypeError")  \* None, int and (for a string key) str

\* obj[path[1]][path[2]]..., stopping at the first exception.
RECURSIVE Lookup(_, _)
Lookup(obj, path) ==
    IF path = <<>> THEN Ok(obj)
    ELSE LET r == Subscript(obj, Head(path))
         IN  IF r.exc # "none" THEN r ELSE Lookup(r.val, Tail(path))

SeqMap(Op(_), s) == [i \in 1..Len(s) |-> Op(s[i])]

\* Body(e), with e evaluated once (a local variable of the code).
Let(Body(_), e) == CHOOSE r \in {Body(x) : x \in {e}} : TRUE

\* Line 40, cut to the first NumMoods keywords.
moods == SubSeq(<<"Happy", "Sad", "Energetic", "Calm">>, 1, NumMoods)

\* The subscript chains of the loop body, in the order the body evaluates
\* them: lines 77-89 (time == None, under item['track']) and 96-107.
FieldPaths(time) ==
    LET root == IF time = None THEN <<"track">> ELSE <<>>
    IN  << root \o <<"name">>,
           root \o <<"id">>,
           root \o <<"artists", "[0]", "name">>,
           root \o <<"artists", "[0]", "id">>,
           root \o <<"album", "name">>,
           root \o <<"album", "id">>,
           root \o <<"popularity">> >>

\* One pass of the loop body for one item: the info list, or the exception
\* of the first subscript that fails.
ItemInfo(item, mood, time) ==
    Let(LAMBDA got :
            LET bad == {i \in 1..Len(got) : got[i].exc # "none"}
                first == CHOOSE i \in bad : \A j \in bad : i <= j
                fields == [i \in 1..Len(got) |-> got[i].val]
            IN  IF bad # {} THEN Raise(got[first].exc)
                ELSE IF time = None THEN Ok(fields \o <<mood>>)
                ELSE Ok(fields \o <<mood, time>>),
        [i \in 1..Len(FieldPaths(time)) |-> Lookup(item, FieldPaths(time)[i])])

IsText(x) == x.k \in {"str", "int"}

\* np.array(tracks): no rows give an array of shape (0,); rows of str and
\* int only are coerced to a string dtype; a None anywhere keeps the
\* objects as they are.
NpArray(tracks) ==
    IF tracks = <<>> THEN [ndim |-> 1, data |-> <<>>]
    ELSE IF \A i \in 1..Len(tracks) : \A j \in 1..Len(tracks[i]) : IsText(tracks[i][j])
    THEN [ndim |-> 2,
          data |-> [i \in 1..Len(tracks) |->
                       [j \in 1..Len(tracks[i]) |-> Str(tracks[i][j].v)]]]
    ELSE [ndim |-> 2, data |-> tracks]

\* The for loop of lines 71-112: TypeError skips the item, any other
\* exception leaves the function.
RECURSIVE ExtractLoop(_, _, _, _)
ExtractLoop(items, mood, time, tracks) ==
    IF items = <<>> THEN Ok(tracks)
    ELSE Let(LAMBDA r :
                 IF r.exc = "none"
                 THEN ExtractLoop(Tail(items), mood, time, Append(tracks, r.val))
                 ELSE IF r.exc = "TypeError"
                 THEN ExtractLoop(Tail(items), mood, time, tracks)
                 ELSE r,
             ItemInfo(Head(items), mood, time))

get_tracks_from_playlist(playlist, mood, time) ==
    Let(LAMBDA items :
            IF items.exc # "none" THEN items
            ELSE IF items.val.k # "list" THEN Raise("TypeError")
            ELSE Let(LAMBDA r : IF r.exc # "none" THEN r ELSE Ok(NpArray(r.val)),
                     ExtractLoop(items.val.l, mood, time, <<>>)),
        Subscript(playlist, "items"))

---------------------------------------------------------------------------
(* pandas: a DataFrame is its column names, its index labels and its rows  *)
(* (one record per row, column -> value).                                  *)

NaN == [k |-> "nan"]
Idx(i) == [k |-> "int", n |-> i]

Range(s) == {s[i] : i \in 1..Len(s)}
Pos(s, x) == CHOOSE i \in 1..Len(s) : s[i] = x
RangeIndex(n) == [i \in 1..n |-> i - 1]

RECURSIVE Flatten(_)
Flatten(ss) == IF ss = <<>> THEN <<>> ELSE Head(ss) \o Flatten(Tail(ss))

RECURSIVE Filter(_, _)
Filter(s, keep) ==
    IF s = <<>> THEN <<>>
    ELSE IF Head(s) \in keep THEN <<Head(s)>> \o Filter(Tail(s), keep)
    ELSE Filter(Tail(s), keep)

EmptyFrame == [columns |-> <<>>, index |-> <<>>, rows |-> <<>>]

\* pd.DataFrame(array, columns=...): the array must be two-dimensional with
\* one value per column, or the constructor raises ValueError.
DataFrame(array, columns) ==
    IF array.ndim # 2 \/ \E i \in 1..Len(array.data) : Len(array.data[i]) # Len(columns)
    THEN Raise("ValueError")
    ELSE Ok([columns |-> columns,
             index |-> RangeIndex(Len(array.data)),
             rows |-> [i \in 1..Len(array.data) |->
                          [c \in Range(columns) |-> array.data[i][Pos(columns, c)]]]])

\* pd.concat([a, b]): rows and index labels appended, columns united.
Concat(a, b) ==
    LET cols == a.columns \o Filter(b.columns, Range(b.columns) \ Range(a.columns))
        Widen(r) == [c \in Range(cols) |-> IF c \in DOMAIN r THEN r[c] ELSE NaN]
    IN  [columns |-> cols,
         index |-> a.index \o b.index,
         rows |-> SeqMap(Widen, a.rows \o b.rows)]

\* df.reset_index(): the old index becomes the column 'index'.
ResetIndex(df) ==
    [columns |-> <<"index">> \o df.columns,
     index |-> RangeIndex(Len(df.rows)),
     rows |-> [i \in 1..Len(df.rows) |->
                  [c \in {"index"} \cup Range(df.columns) |->
                      IF c = "index" THEN Idx(df.index[i]) ELSE df.rows[i][c]]]]

\* df.drop(columns=cols), for columns the frame has.
DropColumns(df, cols) ==
    [columns |-> Filter(df.columns, Range(df.columns) \ cols),
     index |-> df.index,
     rows |-> [i \in 1..Len(df.rows) |->
                  [c \in Range(df.columns) \ cols |-> df.rows[i][c]]]]

\* A variant that takes track_id alone as the key of a row.
DropDuplicatesByTrackId(df) ==
    LET first == {i \in 1..Len(df.rows) :
                     \A j \in 1..(i - 1) : df.rows[j]["track_id"] # df.rows[i]["track_id"]}
        keep == Filter(RangeIndex(Len(df.rows)), {i - 1 : i \in first})
    IN  [columns |-> df.columns,
         index |-> [i \in 1..Len(keep) |-> df.index[keep[i] + 1]],
         rows |-> [i \in 1..Len(keep) |-> df.rows[keep[i] + 1]]]

\* df.drop_duplicates(): a row equal in every column to an earlier row is
\* dropped; the rows kept keep their index labels.
DropDuplicates(df) ==
    LET first == {i \in 1..Len(df.rows) : \A j \in 1..(i - 1) : df.rows[j] # df.rows[i]}
        keep == Filter(RangeIndex(Len(df.rows)), {i - 1 : i \in first})
    IN  [columns |-> df.columns,
         index |-> [i \in 1..Len(keep) |-> df.index[keep[i] + 1]],
         rows |-> [i \in 1..Len(keep) |-> df.rows[keep[i] + 1]]]

\* left.merge(right, on=key, how='left'): every left row, in order, once
\* per right row with the same key, or once with NaN when there is none.
MergeLeft(left, right, key) ==
    LET rcols == Filter(right.columns, Range(right.columns) \ {key})
        cols == left.columns \o rcols
        Join(l, r) == [c \in Range(cols) |-> IF c \in DOMAIN l THEN l[c] ELSE r[c]]
        Alone(l) == [c \in Range(cols) |-> IF c \in DOMAIN l THEN l[c] ELSE NaN]
        Matches(l) == {j \in 1..Len(right.rows) : right.rows[j][key] = l[key]}
        RowsFor(l) ==
            IF Matches(l) = {} THEN <<Alone(l)>>
            ELSE LET js == Filter([j \in 1..Len(right.rows) |-> j], Matches(l))
                 IN  [n \in 1..Len(js) |-> Join(l, right.rows[js[n]])]
    IN  Let(LAMBDA rows :
                [columns |-> cols, index |-> RangeIndex(Len(rows)), rows |-> rows],
            Flatten(SeqMap(RowsFor, left.rows)))

---------------------------------------------------------------------------
(* The audio-features and artist resources of the Web API.                 *)

\* The audio-features object of a track: the service's id and URIs and, for
\* its numeric descriptors, one representative column.
AudioFeatures(t, v) ==
    Dict([danceability |-> Num(v),
          id |-> Str(t),
          uri |-> Str("spotify:track:" \o t),
          track_href |-> Str("href_" \o t),
          analysis_url |-> Str("analysis_" \o t)])
FeatureColumns == <<"danceability", "id", "uri", "track_href", "analysis_url">>

\* pd.DataFrame(list of dicts): the columns are the keys of the dicts.
FrameOfDicts(dicts) ==
    IF dicts = <<>> THEN EmptyFrame
    ELSE [columns |-> FeatureColumns,
          index |-> RangeIndex(Len(dicts)),
          rows |-> [i \in 1..Len(dicts) |-> dicts[i].d]]

RenameColumn(df, old, new) ==
    LET Name(c) == IF c = old THEN new ELSE c
    IN  [columns |-> SeqMap(Name, df.columns),
         index |-> df.index,
         rows |-> [i \in 1..Len(df.rows) |->
                      [c \in {Name(x) : x \in Range(df.columns)} |->
                          IF c = new /\ old \in Range(df.columns)
                          THEN df.rows[i][old] ELSE df.rows[i][c]]]]

UriColumns == {"uri", "track_href", "analysis_url"}

\* The lookups of line 161: one per row, by the row's track_id.
FeatureLookups(df) == [i \in 1..Len(df.rows) |-> df.rows[i]["track_id"]]

\* generate_features(df, 'track_id'), given what sp.audio_features answered
\* for each row's track_id, in row order (None: no features).
generate_features(df, answers) ==
    IF "track_id" \notin Range(df.columns) THEN Raise("KeyError")
    ELSE Let(LAMBDA features_df :
                 IF ~(UriColumns \subseteq Range(features_df.columns))
                 THEN Raise("KeyError")
                 ELSE Let(LAMBDA dropped :
                     Let(LAMBDA renamed :
                         Let(LAMBDA merged :
                                 IF "index" \in Range(merged.columns)
                                 THEN Ok(DropColumns(merged, {"index"}))
                                 ELSE Ok(merged),
                             MergeLeft(df, renamed, "track_id")),
                         RenameColumn(dropped, "id", "track_id")),
                     DropColumns(features_df, UriColumns)),
             FrameOfDicts(Filter(answers, Range(answers) \ {None})))

\* sp.artist(_id): the artist object, of which add_genres reads 'genres'.
ArtistResource(a, genres) == Dict([id |-> Str(a), genres |-> List(genres)])

\* A variant that looks each artist up once only.
ArtistLookupsUnique(df) ==
    LET ids == [i \in 1..Len(df.rows) |-> df.rows[i]["artist_id"]]
        first == {i \in 1..Len(ids) : \A j \in 1..(i - 1) : ids[j] # ids[i]}
    IN  [n \in 1..Cardinality(first) |->
            ids[CHOOSE i \in first : Cardinality({j \in first : j < i}) = n - 1]]

\* The lookups of lines 189-190: one per row, by the row's artist_id.
ArtistLookups(df) == [i \in 1..Len(df.rows) |-> df.rows[i]["artist_id"]]

\* add_genres(df, 'artist_id'), given what sp.artist answered for each
\* lookup, in order: the list of their genres is attached as a column.
add_genres(df, artists) ==
    LET genres == [i \in 1..Len(artists) |-> artists[i].d.genres]
    IN  IF Len(genres) # Len(df.rows) THEN Raise("ValueError")
        ELSE Ok([columns |-> Append(df.columns, "genres"),
                 index |-> df.index,
                 rows |-> [i \in 1..Len(df.rows) |->
                              [c \in Range(df.columns) \cup {"genres"} |->
                                  IF c = "genres" THEN genres[i] ELSE df.rows[i][c]]]])

---------------------------------------------------------------------------
(* The catalog the Web API answers from: well-formed track objects, and    *)
(* the malformed ones the extraction loop has to cope with.                *)

AllTrackIds == <<"t1", "t2", "t3">>
TrackIds == {AllTrackIds[i] : i \in 1..NumTracks}
ArtistOf(t) == IF t = "t2" THEN "a2" ELSE "a1"

ArtistObj(a) == Dict([name |-> Str("name_" \o a), id |-> Str(a)])
AlbumObj(t) == Dict([name |-> Str("album_" \o t), id |-> Str("al_" \o t)])
TrackObj(t) ==
    Dict([name |-> Str("name_" \o t),
          id |-> Str(t),
          artists |-> List(<<ArtistObj(ArtistOf(t)), ArtistObj("a9")>>),
          album |-> AlbumObj(t),
          popularity |-> Num("50")])

Without(obj, key) == Dict([x \in (DOMAIN obj.d) \ {key} |-> obj.d[x]])
With(obj, key, val) == Dict([obj.d EXCEPT ![key] = val])

\* Every way one field of a track object can be absent or null.
MalformedTracks(t) ==
    LET T == TrackObj(t)
        A == ArtistObj(ArtistOf(t))
        L == AlbumObj(t)
    IN  {None}
        \cup {Without(T, x) : x \in DOMAIN T.d}
        \cup {With(T, x, None) : x \in DOMAIN T.d}
        \cup {With(T, "artists", List(<<>>)), With(T, "artists", List(<<None>>))}
        \cup {With(T, "artists", List(<<Without(A, x)>>)) : x \in DOMAIN A.d}
        \cup {With(T, "artists", List(<<With(A, x, None)>>)) : x \in DOMAIN A.d}
        \cup {With(T, "album", Without(L, x)) : x \in DOMAIN L.d}
        \cup {With(T, "album", With(L, x, None)) : x \in DOMAIN L.d}

TrackValues == {TrackObj(t) : t \in TrackIds} \cup MalformedTracks("t1")

\* Items of sp.playlist_tracks (the track nested under 'track') and of
\* sp.current_user_top_tracks (the track itself).
PlaylistItem(tv) == Dict([added_at |-> Str("2022"), track |-> tv])
PlaylistItems ==
    {PlaylistItem(tv) : tv \in TrackValues}
    \cup {Dict([added_at |-> Str("2022")]), None}
TopItems == TrackValues

SeqsUpTo(S, n) == UNION {[1..m -> S] : m \in 0..n}
Page(items) == Dict([items |-> List(items)])

---------------------------------------------------------------------------
(* Harness for get_tracks_from_playlist: any page, extracted once.         *)

Idle ==
    /\ sp = "none" /\ mood_lists = <<>> /\ track_df = <<>>
    /\ user_top_tracks = <<>> /\ user_top_tracks_df = <<>>
    /\ files = <<>> /\ error = "none" /\ calls = <<>> /\ stages = <<>>

ExtractArgs(n) ==
    {[playlist |-> Page(p), mood |-> Str(moods[m]), time |-> None] :
        p \in SeqsUpTo(PlaylistItems, n), m \in 1..Len(moods)}
    \cup
    {[playlist |-> Page(p), mood |-> None, time |-> Str("short_term")] :
        p \in SeqsUpTo(TopItems, n)}

InitExtract ==
    /\ Idle
    /\ pc = "call"
    /\ arg \in ExtractArgs(MaxPage)
    /\ ret = Raise("pending")

CallExtract ==
    /\ pc = "call"
    /\ ret' = get_tracks_from_playlist(arg.playlist, arg.mood, arg.time)
    /\ pc' = IF ret'.exc = "none" THEN "returned" ELSE "raised"
    /\ UNCHANGED <<sp, mood_lists, track_df, user_top_tracks,
                   user_top_tracks_df, files, error, calls, stages, arg>>

NextExtract == CallExtract

SpecExtract == InitExtract /\ [][NextExtract]_vars

---------------------------------------------------------------------------
(* What the Web API may answer.                                            *)

RECURSIVE Choices(_)
Choices(sets) ==
    IF sets = <<>> THEN {<<>>}
    ELSE {<<h>> \o t : h \in Head(sets), t \in Choices(Tail(sets))}

AllVersions == <<"0.5", "0.9", "0.1">>
Versions == {AllVersions[i] : i \in 1..NumVersions}

\* sp.audio_features(_id)[0]: None, or a feature object of the track.
FeatureAnswers(id) == {None} \cup {AudioFeatures(id.v, v) : v \in Versions}
\* sp.artist(_id): during a run of the script an artist keeps its genres.
GenresOf(a) == IF a = "a1" THEN <<"pop">> ELSE <<"rock", "indie">>
ArtistAnswers(id) == {ArtistResource(id.v, GenresOf(id.v))}

Call(api, id, answer) == [api |-> api, arg |-> id, ret |-> answer]
Log(api, ids, answers) == [i \in 1..Len(ids) |-> Call(api, ids[i], answers[i])]

\* sp.search(mood, type='playlist')['playlists']['items'], as playlist ids.
AllPlaylistIds == <<"p1", "p2", "p3">>
PlaylistIds == {AllPlaylistIds[i] : i \in 1..MaxPlaylists}
SearchAnswers ==
    {s \in SeqsUpTo(PlaylistIds, MaxPlaylists) :
        \A i, j \in 1..Len(s) : i # j => s[i] # s[j]}

\* Pages the script fetches: well-formed tracks, a removed track (null) and
\* an item without its 'track' key.
RunPlaylistPages ==
    {Page(p) : p \in SeqsUpTo({PlaylistItem(TrackObj(t)) : t \in TrackIds}
                              \cup {PlaylistItem(None), Dict([added_at |-> Str("2022")])},
                              MaxItems)}
RunTopPages ==
    {Page(p) : p \in SeqsUpTo({TrackObj(t) : t \in TrackIds} \cup {None}, MaxItems)}

---------------------------------------------------------------------------
(* The script, statement by statement.                                     *)

MoodColumns == <<"track_name", "track_id", "artist_name", "artist_id",
                 "album_name", "album_id", "popularity", "mood">>
TopColumns == <<"track_name", "track_id", "artist_name", "artist_id",
                "album_name", "album_id", "popularity", "mood", "time_range">>

\* Line 225, cut to the first NumWindows time ranges.
time_rank_range ==
    SubSeq(<<[time |-> "short_term", rank |-> 10],
             [time |-> "medium_term", rank |-> 20],
             [time |-> "long_term", rank |-> 50]>>, 1, NumWindows)

MoodFile == "./data/song_mood_data.csv"
UserFile == "./data/user_top_tracks.csv"

Unbound == [k |-> "unbound"]

\* A variant that deduplicates the user's tracks before augmenting them.
ScriptDedupFirst ==
    <<"connect", "generate_mood_lists", "generate_track_df", "drop_duplicates",
      "generate_features", "to_csv",
      "reauth", "top_tracks", "stack", "user_drop_duplicates",
      "user_generate_features", "add_genres", "user_to_csv">>

\* A variant that writes the user's tracks before the genres are fetched.
ScriptPersistEarly ==
    <<"connect", "generate_mood_lists", "generate_track_df", "drop_duplicates",
      "generate_features", "to_csv",
      "reauth", "top_tracks", "stack", "user_generate_features",
      "user_drop_duplicates", "user_to_csv", "add_genres">>

\* The top-level statements in the order the script runs them.
Script ==
    <<"connect", "generate_mood_lists", "generate_track_df", "drop_duplicates",
      "generate_features", "to_csv",
      "reauth", "top_tracks", "stack", "user_generate_features",
      "user_drop_duplicates", "add_genres", "user_to_csv">>

After(stage) ==
    IF Pos(Script, stage) = Len(Script) THEN "done"
    ELSE Script[Pos(Script, stage) + 1]

Init ==
    /\ pc = Script[1]
    /\ sp = "none"
    /\ mood_lists = Unbound
    /\ track_df = Unbound
    /\ user_top_tracks = Unbound
    /\ user_top_tracks_df = Unbound
    /\ files = <<>>
    /\ error = "none"
    /\ calls = <<>>
    /\ stages = <<>>
    /\ arg = Unbound
    /\ ret = Unbound

\* The statement `stage` completes.
Advance(stage) ==
    /\ pc' = After(stage)
    /\ stages' = Append(stages, stage)
    /\ error' = "none"

\* An exception leaves the statement `stage`: nothing catches it.
Abort(stage, exc) ==
    /\ pc' = "failed"
    /\ error' = [stage |-> stage, exc |-> exc]
    /\ UNCHANGED <<sp, mood_lists, track_df, user_top_tracks, user_top_tracks_df,
                   files, calls, stages, arg, ret>>

\* Line 30.
Connect ==
    /\ pc = "connect"
    /\ \/ /\ sp' = "client_credentials"
          /\ calls' = <<>>
          /\ Advance("connect")
          /\ UNCHANGED <<mood_lists, track_df, user_top_tracks,
                         user_top_tracks_df, files, arg, ret>>
       \/ Abort("connect", "SpotifyOauthError")

\* Lines 42-54.
generate_mood_lists(answers) ==
    [i \in 1..Len(moods) |-> [mood |-> moods[i], playlists |-> answers[i]]]

GenerateMoodLists ==
    /\ pc = "generate_mood_lists"
    /\ \/ \E answers \in [1..Len(moods) -> SearchAnswers] :
             /\ mood_lists' = generate_mood_lists(answers)
             /\ Advance("generate_mood_lists")
             /\ UNCHANGED <<sp, track_df, user_top_tracks, user_top_tracks_df,
                            files, calls, arg, ret>>
       \/ Abort("generate_mood_lists", "SpotifyException")

\* The (mood, playlist) pairs in the order lines 130-131 visit them.
PlaylistVisits(lists) ==
    Flatten([i \in 1..Len(lists) |->
                [j \in 1..Len(lists[i].playlists) |->
                    [mood |-> lists[i].mood, playlist |-> lists[i].playlists[j]]]])

\* Lines 128-138: one frame per visit, appended to track_df.
RECURSIVE TrackDfLoop(_, _, _)
TrackDfLoop(visits, pages, acc) ==
    IF visits = <<>> THEN Ok(acc)
    ELSE Let(LAMBDA tracks :
                 IF tracks.exc # "none" THEN tracks
                 ELSE Let(LAMBDA df :
                              IF df.exc # "none" THEN df
                              ELSE Let(LAMBDA track_df_ :
                                           TrackDfLoop(Tail(visits), Tail(pages),
                                                       track_df_),
                                       Concat(acc, df.val)),
                          DataFrame(tracks.val, MoodColumns)),
             get_tracks_from_playlist(Head(pages), Str(Head(visits).mood), None))

\* Lines 119-141, given the page sp.playlist_tracks answered for each visit.
generate_track_df(lists, pages) ==
    Let(LAMBDA r : IF r.exc # "none" THEN r ELSE Ok(ResetIndex(r.val)),
        TrackDfLoop(PlaylistVisits(lists), pages, EmptyFrame))

\* Line 144.
GenerateTrackDf ==
    /\ pc = "generate_track_df"
    /\ \/ \E pages \in [1..Len(PlaylistVisits(mood_lists)) -> RunPlaylistPages] :
             \E r \in {generate_track_df(mood_lists, pages)} :
                 IF r.exc = "none"
                 THEN /\ track_df' = r.val
                      /\ Advance("generate_track_df")
                      /\ UNCHANGED <<sp, mood_lists, user_top_tracks,
                                     user_top_tracks_df, files, calls, arg, ret>>
                 ELSE Abort("generate_track_df", r.exc)
       \/ Abort("generate_track_df", "SpotifyException")

\* Line 147.
DropDuplicatesMood ==
    /\ pc = "drop_duplicates"
    /\ track_df' = DropDuplicates(track_df)
    /\ Advance("drop_duplicates")
    /\ UNCHANGED <<sp, mood_lists, user_top_tracks, user_top_tracks_df,
                   files, calls, arg, ret>>

\* Line 178.
GenerateFeaturesMood ==
    /\ pc = "generate_features"
    /\ \/ /\ "track_id" \notin Range(track_df.columns)
          /\ Abort("generate_features", "KeyError")
       \/ /\ "track_id" \in Range(track_df.columns)
          /\ \E answers \in Choices(SeqMap(FeatureAnswers, FeatureLookups(track_df))) :
                \E r \in {generate_features(track_df, answers)} :
                    IF r.exc = "none"
                    THEN /\ track_df' = r.val
                         /\ calls' = calls \o Log("audio_features",
                                                  FeatureLookups(track_df), answers)
                         /\ Advance("generate_features")
                         /\ UNCHANGED <<sp, mood_lists, user_top_tracks,
                                        user_top_tracks_df, files, arg, ret>>
                    ELSE Abort("generate_features", r.exc)
       \/ /\ "track_id" \in Range(track_df.columns)
          /\ Abort("generate_features", "SpotifyException")

\* df.to_csv(path): the file holds the frame, index included.
ToCsv(fs, path, df) ==
    [f \in DOMAIN fs \cup {path} |-> IF f = path THEN df ELSE fs[f]]

\* Line 198.
ToCsvMood ==
    /\ pc = "to_csv"
    /\ files' = ToCsv(files, MoodFile, track_df)
    /\ Advance("to_csv")
    /\ UNCHANGED <<sp, mood_lists, track_df, user_top_tracks,
                   user_top_tracks_df, calls, arg, ret>>

\* Lines 212-225.
ReAuth ==
    /\ pc = "reauth"
    /\ sp' = "user_oauth"
    /\ calls' = <<>>
    /\ Advance("reauth")
    /\ UNCHANGED <<mood_lists, track_df, user_top_tracks, user_top_tracks_df,
                   files, arg, ret>>

\* Lines 230-232: one array per time range.
RECURSIVE TopTracksLoop(_, _, _)
TopTracksLoop(ranges, pages, acc) ==
    IF ranges = <<>> THEN Ok(acc)
    ELSE Let(LAMBDA tracks :
                 IF tracks.exc # "none" THEN tracks
                 ELSE TopTracksLoop(Tail(ranges), Tail(pages), Append(acc, tracks.val)),
             get_tracks_from_playlist(Head(pages), None, Str(Head(ranges).time)))

\* Lines 227-232.
TopTracks ==
    /\ pc = "top_tracks"
    /\ \/ \E pages \in [1..Len(time_rank_range) -> RunTopPages] :
             \E r \in {TopTracksLoop(time_rank_range, pages, <<>>)} :
                 IF r.exc = "none"
                 THEN /\ user_top_tracks' = r.val
                      /\ Advance("top_tracks")
                      /\ UNCHANGED <<sp, mood_lists, track_df, user_top_tracks_df,
                                     files, calls, arg, ret>>
                 ELSE Abort("top_tracks", r.exc)
       \/ Abort("top_tracks", "SpotifyException")

\* np.vstack: every array as at least two-dimensional (an empty one becomes
\* one row of no columns), stacked if the rows are equally wide.
VStack(arrays) ==
    LET Rows(a) == IF a.ndim = 1 THEN <<a.data>> ELSE a.data
    IN  Let(LAMBDA rows :
                IF \E i, j \in 1..Len(rows) : Len(rows[i]) # Len(rows[j])
                THEN Raise("ValueError")
                ELSE Ok([ndim |-> 2, data |-> rows]),
            Flatten(SeqMap(Rows, arrays)))

\* Lines 234-238.
Stack ==
    /\ pc = "stack"
    /\ \E stacked \in {VStack(user_top_tracks)} :
          IF stacked.exc # "none" THEN Abort("stack", stacked.exc)
          ELSE \E df \in {DataFrame(stacked.val, TopColumns)} :
                  IF df.exc # "none" THEN Abort("stack", df.exc)
                  ELSE /\ user_top_tracks' = stacked.val
                       /\ user_top_tracks_df' = df.val
                       /\ Advance("stack")
                       /\ UNCHANGED <<sp, mood_lists, track_df, files, calls,
                                      arg, ret>>

\* Line 241.
GenerateFeaturesUser ==
    /\ pc = "user_generate_features"
    /\ \/ \E answers \in Choices(SeqMap(FeatureAnswers,
                                         FeatureLookups(user_top_tracks_df))) :
             \E r \in {generate_features(user_top_tracks_df, answers)} :
                 IF r.exc = "none"
                 THEN /\ user_top_tracks_df' = r.val
                      /\ calls' = calls \o Log("audio_features",
                                               FeatureLookups(user_top_tracks_df),
                                               answers)
                      /\ Advance("user_generate_features")
                      /\ UNCHANGED <<sp, mood_lists, track_df, user_top_tracks,
                                     files, arg, ret>>
                 ELSE Abort("user_generate_features", r.exc)
       \/ Abort("user_generate_features", "SpotifyException")

\* Line 242.
DropDuplicatesUser ==
    /\ pc = "user_drop_duplicates"
    /\ \E unique \in {DropDuplicates(user_top_tracks_df)} :
          \E renumbered \in {ResetIndex(unique)} :
              user_top_tracks_df' = DropColumns(renumbered, {"index"})
    /\ Advance("user_drop_duplicates")
    /\ UNCHANGED <<sp, mood_lists, track_df, user_top_tracks, files, calls,
                   arg, ret>>

\* Line 245.
AddGenres ==
    /\ pc = "add_genres"
    /\ \/ \E answers \in Choices(SeqMap(ArtistAnswers,
                                         ArtistLookups(user_top_tracks_df))) :
             \E r \in {add_genres(user_top_tracks_df, answers)} :
                 IF r.exc = "none"
                 THEN /\ user_top_tracks_df' = r.val
                      /\ calls' = calls \o Log("artist",
                                               ArtistLookups(user_top_tracks_df),
                                               answers)
                      /\ Advance("add_genres")
                      /\ UNCHANGED <<sp, mood_lists, track_df, user_top_tracks,
                                     files, arg, ret>>
                 ELSE Abort("add_genres", r.exc)
       \/ Abort("add_genres", "SpotifyException")

\* Line 247.
ToCsvUser ==
    /\ pc = "user_to_csv"
    /\ files' = ToCsv(files, UserFile, user_top_tracks_df)
    /\ Advance("user_to_csv")
    /\ UNCHANGED <<sp, mood_lists, track_df, user_top_tracks,
                   user_top_tracks_df, calls, arg, ret>>

Next ==
    \/ Connect
    \/ GenerateMoodLists
    \/ GenerateTrackDf
    \/ DropDuplicatesMood
    \/ GenerateFeaturesMood
    \/ ToCsvMood
    \/ ReAuth
    \/ TopTracks
    \/ Stack
    \/ GenerateFeaturesUser
    \/ DropDuplicatesUser
    \/ AddGenres
    \/ ToCsvUser

Spec == Init /\ [][Next]_vars

---------------------------------------------------------------------------
(* Harness for generate_features and add_genres: any table of extracted    *)
(* records, any answers of the service, applied once.                      *)

MoodRecord(t, m) == ItemInfo(PlaylistItem(TrackObj(t)), Str(m), None).val
TopRecord(t, w) == ItemInfo(TrackObj(t), None, Str(w)).val

\* Tables as lines 134-140 and 236-238 build them, duplicates included.
HarnessTables(n) ==
    {ResetIndex(df) : df \in {DataFrame(NpArray(rows), MoodColumns).val :
        rows \in SeqsUpTo({MoodRecord(t, m) : t \in TrackIds, m \in Range(moods)},
                          n) \ {<<>>}}}
    \cup
    {DataFrame(NpArray(rows), TopColumns).val :
        rows \in SeqsUpTo({TopRecord(t, w.time) : t \in TrackIds,
                                                  w \in Range(time_rank_range)},
                          n) \ {<<>>}}

\* Between two lookups the service may also have changed an artist's genres.
HarnessArtistAnswers(id) ==
    {ArtistResource(id.v, g) : g \in {<<"pop">>, <<"rock", "indie">>}}

InitFeatures ==
    /\ Idle
    /\ pc = "call"
    /\ \E df \in HarnessTables(MaxRows) :
          \E answers \in Choices(SeqMap(FeatureAnswers, FeatureLookups(df))) :
              arg = [df |-> df, answers |-> answers]
    /\ ret = Raise("pending")

CallFeatures ==
    /\ pc = "call"
    /\ ret' = generate_features(arg.df, arg.answers)
    /\ calls' = Log("audio_features", FeatureLookups(arg.df), arg.answers)
    /\ pc' = IF ret'.exc = "none" THEN "returned" ELSE "raised"
    /\ UNCHANGED <<sp, mood_lists, track_df, user_top_tracks,
                   user_top_tracks_df, files, error, stages, arg>>

NextFeatures == CallFeatures

SpecFeatures == InitFeatures /\ [][NextFeatures]_vars

InitGenres ==
    /\ Idle
    /\ pc = "call"
    /\ \E df \in HarnessTables(MaxRows) :
          \E answers \in Choices(SeqMap(HarnessArtistAnswers, ArtistLookups(df))) :
              arg = [df |-> df, answers |-> answers]
    /\ ret = Raise("pending")

CallGenres ==
    /\ pc = "call"
    /\ ret' = add_genres(arg.df, arg.answers)
    /\ calls' = Log("artist", ArtistLookups(arg.df), arg.answers)
    /\ pc' = IF ret'.exc = "none" THEN "returned" ELSE "raised"
    /\ UNCHANGED <<sp, mood_lists, track_df, user_top_tracks,
                   user_top_tracks_df, files, error, stages, arg>>

NextGenres == CallGenres

SpecGenres == InitGenres /\ [][NextGenres]_vars

---------------------------------------------------------------------------
(* Claims about get_tracks_from_playlist.                                  *)

\* An item all of whose required nested fields are present.
FieldsPresent(item, time) ==
    \A i \in 1..Len(FieldPaths(time)) :
        Lookup(item, FieldPaths(time)[i]).exc = "none"

RECURSIVE SelectSeq2(_, _)
SelectSeq2(s, time) ==
    IF s = <<>> THEN <<>>
    ELSE IF FieldsPresent(Head(s), time)
    THEN <<Head(s)>> \o SelectSeq2(Tail(s), time)
    ELSE SelectSeq2(Tail(s), time)

ArgItems == arg.playlist.d.items.l

\* C1: Track Extraction never aborts on a malformed item: items with absent
\* required fields are skipped, and the call returns exactly one record per
\* well-formed item, in input order, labeled with the supplied mood.
C1_NeverAbortsOnMalformedItem ==
    pc \in {"returned", "raised"} =>
        /\ ret.exc = "none"
        /\ LET good == SelectSeq2(ArgItems, arg.time)
               data == ret.val.data
           IN  /\ Len(data) = Len(good)
               /\ \A i \in 1..Len(good) :
                     /\ data[i][2].v = Lookup(good[i], FieldPaths(arg.time)[2]).val.v
                     /\ data[i][8] = arg.mood

\* C2: the output has at most as many records as the page has items, and
\* every output record has all seven required fields non-null.
C2_OutputRecordsComplete ==
    pc = "returned" =>
        /\ Len(ret.val.data) <= Len(ArgItems)
        /\ \A i \in 1..Len(ret.val.data) :
              \A j \in 1..7 : ret.val.data[i][j] # None

---------------------------------------------------------------------------
(* Claims about generate_features and add_genres.                          *)

Project(row, columns) == [j \in 1..Len(columns) |-> row[columns[j]]]
InputColumns(df) == Filter(df.columns, Range(df.columns) \ {"index"})

\* The service answered alike whenever it was asked about the same id.
Consistent(log) ==
    \A i, j \in 1..Len(log) :
        (log[i].api = log[j].api /\ log[i].arg = log[j].arg) => log[i].ret = log[j].ret

\* C3: Feature Augmentation preserves the row count, whatever track_ids
\* repeat in the table and whichever lookups come back empty.
C3_RowCountPreserved ==
    pc = "returned" => Len(ret.val.rows) = Len(arg.df.rows)

\* What a row's feature column has to hold, given the answer for its id.
ExpectedFeature(answer) ==
    IF answer = None THEN NaN ELSE answer.d["danceability"]

\* C4: an empty feature lookup is never fatal: for any subset of track_ids
\* answered with null, up to all of them, Feature Augmentation completes,
\* keeps those rows with null feature columns and gives every other row the
\* values returned for its track_id.
C4_EmptyLookupNotFatal ==
    (pc \in {"returned", "raised"} /\ Consistent(calls)) =>
        /\ ret.exc = "none"
        /\ \A i \in 1..Len(arg.df.rows) :
              \E j \in 1..Len(ret.val.rows) :
                  /\ Project(ret.val.rows[j], InputColumns(arg.df))
                         = Project(arg.df.rows[i], InputColumns(arg.df))
                  /\ ret.val.rows[j]["danceability"] = ExpectedFeature(arg.answers[i])

\* C9: Genre Augmentation issues exactly one artist lookup per row, and the
\* genres column has one entry per row, row i holding the genres returned by
\* the lookup of row i's artist_id, also when rows share an artist_id.
C9_OneLookupPerRowAligned ==
    pc \in {"returned", "raised"} =>
        /\ ret.exc = "none"
        /\ Len(calls) = Len(arg.df.rows)
        /\ Len(ret.val.rows) = Len(arg.df.rows)
        /\ \A i \in 1..Len(arg.df.rows) :
              /\ calls[i].api = "artist"
              /\ calls[i].arg = arg.df.rows[i]["artist_id"]
              /\ ret.val.rows[i]["genres"] = calls[i].ret.d["genres"]
              /\ Project(ret.val.rows[i], arg.df.columns)
                     = Project(arg.df.rows[i], arg.df.columns)

\* Rows 1 and 2 share an artist whose genres changed between the two
\* lookups, and row 3 is by another artist.
C9_Witness ==
    /\ pc = "returned"
    /\ Len(arg.df.rows) = 3
    /\ arg.df.rows[1]["artist_id"] = arg.df.rows[2]["artist_id"]
    /\ arg.df.rows[3]["artist_id"] # arg.df.rows[1]["artist_id"]
    /\ ret.val.rows[1]["genres"] # ret.val.rows[2]["genres"]
    /\ Len(calls) = 3

---------------------------------------------------------------------------
(* Claims about the two pipelines.                                         *)

Last(s) == s[Len(s)]
IsPrefix(s, t) == Len(s) <= Len(t) /\ \A i \in 1..Len(s) : s[i] = t[i]

MoodStages == {"connect", "generate_mood_lists", "generate_track_df",
               "drop_duplicates", "generate_features", "to_csv"}
\* The statements of the user-top-tracks pipeline completed so far.
UserStagesDone == Filter(stages, Range(stages) \ MoodStages)

\* C5: after Deduplication in the mood pipeline, records with identical
\* extracted fields are represented by one row, whatever playlists and
\* positions they came from.
C5_IdenticalRecordsCollapse ==
    (pc = "generate_features" /\ "track_id" \in Range(track_df.columns)) =>
        \A i, j \in 1..Len(track_df.rows) :
            i # j => Project(track_df.rows[i], MoodColumns)
                         # Project(track_df.rows[j], MoodColumns)

\* C6: the table the mood pipeline persists has no two rows with the same
\* (track_id, mood) pair.
C6_NoDuplicateTrackMoodPersisted ==
    MoodFile \in DOMAIN files =>
        \A i, j \in 1..Len(files[MoodFile].rows) :
            i # j => Project(files[MoodFile].rows[i], <<"track_id", "mood">>)
                         # Project(files[MoodFile].rows[j], <<"track_id", "mood">>)

\* The audio-features lookups issued through the current client.
FeatureCalls == Filter(calls, {c \in Range(calls) : c.api = "audio_features"})

\* C7 as claimed: the user pipeline deduplicates before Feature
\* Augmentation, so lookups are issued for the deduplicated rows only.
C7_DedupBeforeFeatures ==
    IsPrefix(UserStagesDone,
             <<"reauth", "top_tracks", "stack", "user_drop_duplicates",
               "user_generate_features", "add_genres", "user_to_csv">>)

\* C7 as the script runs: re-authenticate, fetch and extract each time
\* window, stack, Feature Augmentation, deduplicate, Genre Augmentation,
\* persist; feature lookups are issued for every row of the stacked table,
\* duplicates included.
C7_FeaturesBeforeDedup ==
    /\ IsPrefix(UserStagesDone,
                <<"reauth", "top_tracks", "stack", "user_generate_features",
                  "user_drop_duplicates", "add_genres", "user_to_csv">>)
    /\ (stages # <<>> /\ Last(stages) = "user_generate_features") =>
           /\ Len(FeatureCalls) = Len(user_top_tracks.data)
           /\ \A i \in 1..Len(FeatureCalls) :
                  FeatureCalls[i].arg = user_top_tracks.data[i][2]

\* Feature Augmentation has just run on a stacked table with a repeated row.
C7_Witness ==
    /\ pc = "user_drop_duplicates"
    /\ \E i, j \in 1..Len(user_top_tracks.data) :
          i # j /\ user_top_tracks.data[i] = user_top_tracks.data[j]
    /\ Len(FeatureCalls) = Len(user_top_tracks.data)

\* C8 as claimed: a run ended by an unhandled failure has written no file.
C8_NoFileOnFailure ==
    pc = "failed" => DOMAIN files = {}

\* C8 as the script runs: a failure in the mood pipeline leaves no file; a
\* failure in the user-top-tracks pipeline leaves the mood dataset, written
\* before that pipeline began, and no user dataset.
C8_NoFileOfFailedPipeline ==
    pc = "failed" =>
        /\ UserFile \notin DOMAIN files
        /\ error.stage \in MoodStages => DOMAIN files = {}
        /\ error.stage \notin MoodStages => DOMAIN files = {MoodFile}

\* The genre lookups fail, after features and deduplication succeeded.
C8_Witness ==
    /\ pc = "failed"
    /\ error.stage = "add_genres"
    /\ MoodFile \in DOMAIN files
    /\ Len(user_top_tracks_df.rows) >= 2

\* C10: if the features endpoint answers alike for the same track_id, the
\* persisted user table has no two equal rows and exactly one row for each
\* distinct (track record, time_range) extracted.
C10_OneRowPerRecordAndWindow ==
    (UserFile \in DOMAIN files /\ Consistent(FeatureCalls)) =>
        LET rows == files[UserFile].rows
            extracted == Range(user_top_tracks.data)
        IN  /\ \A i, j \in 1..Len(rows) : i # j => rows[i] # rows[j]
            /\ {Project(rows[i], TopColumns) : i \in 1..Len(rows)} = extracted
            /\ Len(rows) = Cardinality(extracted)

\* The same track was extracted twice in one window and once in another,
\* features were found for it, and the table was persisted.
C10_Witness ==
    /\ UserFile \in DOMAIN files
    /\ Consistent(FeatureCalls)
    /\ \E i, j, l \in 1..Len(user_top_tracks.data) :
          /\ i # j
          /\ user_top_tracks.data[i] = user_top_tracks.data[j]
          /\ user_top_tracks.data[l][2] = user_top_tracks.data[i][2]
          /\ user_top_tracks.data[l][9] # user_top_tracks.data[i][9]
          /\ \E c \in Range(FeatureCalls) :
                c.ret # None /\ c.arg = user_top_tracks.data[i][2]
    /\ Len(files[UserFile].rows) < Len(user_top_tracks.data)

====
